---- MODULE Spec2Model ----
(***************************************************************************)
(* docker_pull.py: the registry client (ImageFetcher._req / _auth), the    *)
(* layer fetcher (_get_layer), the image assembler (pull) and the exit of  *)
(* the tar writer (TarFile.__exit__), as one sequential state machine.     *)
(*                                                                         *)
(* A program run is `docker_pull.py img img ...`: the main loop calls      *)
(* p.pull(img) for each argument on one ImageFetcher, whose session keeps  *)
(* its headers between pulls.  The file system outlives a run; the session *)
(* does not.  The registry's answers (status codes, manifest list) are     *)
(* drawn from small sets at each request.                                  *)
(***************************************************************************)
EXTENDS Integers, Sequences, FiniteSets

\* ------------------------------------------------------------------ bounds
MaxLayers == 2      \* layers of the manifest, and diff_ids of the config
BlobLen   == 2      \* chunks of a layer blob (the gz stream)
MaxRuns   == 2      \* program runs over the same working directory
NArgs     == 2      \* image arguments on the command line (the same image)

\* --------------------------------------------------------------- constants
NoFile  == <<0>>    \* content of a path that does not exist
NoRange == -1       \* the session has no Range header
Layers  == 1..MaxLayers

\* The HTTP statuses the registry answers with.
Statuses      == {200, 201, 202, 204, 206, 304, 401, 404, 416, 500}
TokenStatuses == {200, 204, 300, 403}

\* The manifest lists the registry may answer with: entries in list order.
Entry(a, d, o) == [architecture |-> a, digest |-> d, os |-> o]
ManifestLists ==
    { <<>>,
      << Entry("arm64", "sha256:m1", "linux") >>,
      << Entry("amd64", "sha256:m1", "windows") >>,
      << Entry("arm64", "sha256:m1", "linux"), Entry("amd64", "sha256:m2", "windows"),
         Entry("amd64", "sha256:m3", "linux") >>,
      << Entry("amd64", "sha256:m2", "linux"), Entry("arm64", "sha256:m1", "linux"),
         Entry("amd64", "sha256:m3", "windows") >> }

\* pull's arch argument: main calls p.pull(img), so arch is the default.
arch == "amd64"

VARIABLES
    pc,         \* position of the program
    run,        \* number of the program run
    argi,       \* index of the command-line argument being pulled
    user,       \* ImageFetcher._user is set
    hAuth,      \* session header Authorization: "none", "basic", "bearer"
    hRange,     \* session header Range: NoRange, or n of "bytes=n-"
    kind,       \* the request _req is making: list, manifest, config, blob
    sent,       \* times _req sent the original request in this call
    first,      \* status of the first response of this call (0: none yet)
    status,     \* status of the last response of this call (0: none yet)
    out,        \* how the last _req ended: response, None, HTTPError
    tok,        \* status of the token response _auth got (0: none, or request re-sent)
    blobReq,    \* layers whose blob was requested in this pull
    mlist,      \* the manifest list received
    tag_digest, \* pull's tag_digest ("": None)
    image_os,   \* pull's image_os
    mref,       \* the reference of the manifest GET
    idx,        \* the layer index of the loop in pull (0: before the loop)
    mode,       \* _get_layer's open_file_mode ("": not set)
    body,       \* chunks of the response body not yet read
    skipped,    \* layers _get_layer found complete in this pull
    exc,        \* an exception left the body of the tar writer's with block
    err,        \* the exception that ended the pull ("": none)
    nLayers,    \* registry: len(image_manifest['layers'])
    nDiff,      \* registry: len(image_config['rootfs']['diff_ids'])
    blobOK,     \* registry: layer blob i inflates to the content diff_ids[i] names
    staging,    \* the staging directory <image_name>.tmp exists
    cfgFile,    \* <staging>/<config-digest>.json exists
    dirs,       \* the layer directories <staging>/<v1_i> that exist
    gz,         \* content of <v1_i>/layer.tar.gz
    tar,        \* content of <v1_i>/layer.tar
    json,       \* layers whose <v1_i>/json exists
    ver,        \* layers whose <v1_i>/VERSION exists
    topFiles,   \* manifest.json and repositories exist
    archive,    \* <image_name>.tar: the layer.tar members archived, or <<>>
    fn,         \* the function under study on its own ("": the program runs)
    inp,        \* its argument
    res         \* its result (<<>>: not called yet)

session == <<hAuth, hRange>>
call    == <<kind, sent, first, status, out, tok>>
locals  == <<mlist, tag_digest, image_os, mref, idx, mode, body, skipped, exc>>
registry == <<nLayers, nDiff, blobOK>>
files   == <<staging, cfgFile, dirs, gz, tar, json, ver, topFiles>>
lab     == <<fn, inp, res>>
program == <<pc, run, argi, user, session, call, blobReq, locals, err, registry, files,
             archive>>
vars    == <<program, lab>>

\* ----------------------------------------------------------- pure helpers
\* hashlib.sha256 over a file's content, as an injective code of the chunk
\* sequence (chunks are -BlobLen..BlobLen).
RECURSIVE Sha256(_)
Sha256(c) ==
    IF c = <<>> THEN 1
    ELSE (Sha256(SubSeq(c, 1, Len(c) - 1)) * (2 * BlobLen + 2)) + c[Len(c)] + BlobLen + 1

\* sha256sum(filename): the hex digest, a string without prefix.
sha256sum(content) == << Sha256(content) >>

\* "sha256:" + hex: a digest string; token 0 stands for the 7 characters "sha256:".
Digest(hex) == <<0>> \o hex

\* s[7:]
Strip7(s) == SubSeq(s, 2, Len(s))

\* The registry's data for one image.
GoodTar    == [k \in 1..BlobLen |-> k]
diff_ids   == [i \in Layers |-> Digest(sha256sum(GoodTar))]
Blob(i)    == [k \in 1..BlobLen |-> IF blobOK[i] THEN k ELSE -k]
IsMember(m) == m = [k \in 1..BlobLen |-> k] \/ m = [k \in 1..BlobLen |-> -k]

\* gzip.open(...).read() to the end: the members of the stream are inflated one
\* after another; a truncated member or bytes that start no member raise, with
\* the output of the members before them already written.
RECURSIVE Gunzip(_)
Gunzip(g) ==
    IF g = <<>> THEN [ok |-> TRUE, data |-> <<>>]
    ELSE IF Len(g) >= BlobLen /\ IsMember(SubSeq(g, 1, BlobLen))
    THEN LET rest == Gunzip(SubSeq(g, BlobLen + 1, Len(g)))
         IN  [ok |-> rest.ok, data |-> SubSeq(g, 1, BlobLen) \o rest.data]
    ELSE [ok |-> FALSE, data |-> <<>>]

\* ------------------------------------------------------------- ImageFetcher._req
\* The statuses _req returns the response for.
Accepted(s) == s \in {200, 201, 202, 204, 416}

\* r.raise_for_status(): raises for 4xx and 5xx.
RaisesForStatus(s) == s >= 400 /\ s < 600

\* How _req ends on a final response with status s.
Outcome(s) ==
    IF Accepted(s) THEN "response"
    ELSE IF RaisesForStatus(s) THEN "HTTPError"
    ELSE "None"

\* The pc after a final response: an exception leaves pull, anything else returns.
AfterFinal(s) == IF Outcome(s) = "HTTPError" THEN "failed" ELSE "ret"

\* `if r.status_code == requests.codes.unauthorized`, tested on the first response only.
\* (Variant: the test repeated on the second response.)
Unauthorized_again(n, s) == n <= 2 /\ s = 401
Unauthorized(n, s) == n = 1 /\ s = 401

\* r = self._session.request(method, url, stream=stream), the first time.
req_first ==
    /\ pc = "req"
    /\ \E s \in Statuses :
        /\ sent' = 1
        /\ first' = s
        /\ status' = s
        /\ IF Unauthorized(1, s)
           THEN pc' = "auth" /\ out' = "" /\ err' = ""
           ELSE pc' = AfterFinal(s) /\ out' = Outcome(s)
                /\ err' = IF Outcome(s) = "HTTPError" THEN "HTTPError" ELSE ""
    /\ blobReq' = IF kind = "blob" THEN blobReq \cup {idx} ELSE blobReq
    /\ UNCHANGED <<run, argi, user, session, kind, tok, locals, registry, lab, files, archive>>

\* self._auth(r): drop Authorization, set the Basic credentials of a user, and on
\* a www-authenticate challenge get a token; a failed token request raises.  The
\* token response has a JSON body with a token or not; a 204 has no body.
auth ==
    /\ pc = "auth"
    /\ \E challenge \in BOOLEAN, ts \in TokenStatuses, has_token \in BOOLEAN :
        LET basic == IF user THEN "basic" ELSE "none" IN
        IF ~challenge
        THEN /\ hAuth' = basic /\ tok' = tok
             /\ pc' = "retry" /\ err' = ""
        ELSE /\ tok' = ts
             /\ IF RaisesForStatus(ts)
                THEN hAuth' = basic /\ pc' = "failed" /\ err' = "HTTPError"
                ELSE IF ts # 204 /\ has_token
                THEN hAuth' = "bearer" /\ pc' = "retry" /\ err' = ""
                ELSE hAuth' = basic /\ pc' = "failed" /\ err' = "JSONDecodeError"
    /\ UNCHANGED <<run, argi, user, hRange, kind, sent, first, status, out, blobReq,
                   locals, registry, lab, files, archive>>

\* r = self._session.request(method, url, stream=stream), after _auth.
req_retry ==
    /\ pc = "retry"
    /\ \E s \in Statuses :
        /\ sent' = sent + 1
        /\ status' = s
        /\ IF Unauthorized(sent + 1, s)
           THEN pc' = "auth" /\ out' = "" /\ err' = ""
           ELSE pc' = AfterFinal(s) /\ out' = Outcome(s)
                /\ err' = IF Outcome(s) = "HTTPError" THEN "HTTPError" ELSE ""
    /\ blobReq' = IF kind = "blob" THEN blobReq \cup {idx} ELSE blobReq
    /\ tok' = 0
    /\ UNCHANGED <<run, argi, user, session, kind, first, locals, registry, lab, files,
                   archive>>

\* The response of the call has been used: the call's record is dropped.
Return ==
    /\ kind' = kind
    /\ sent' = 0 /\ first' = 0 /\ status' = 0 /\ out' = "" /\ tok' = 0

\* Entering _req for a request of kind k.
Call(k) ==
    /\ pc' = "req"
    /\ kind' = k
    /\ sent' = 0 /\ first' = 0 /\ status' = 0 /\ out' = "" /\ tok' = 0

\* ------------------------------------------------------------ ImageFetcher.pull
\* A response with one of these statuses carries the JSON document asked for;
\* 204 and 416 carry no body, and .json() raises on them.
HasDocument(s) == s \in {200, 201, 202}

\* The loop over manifests_list_data['manifests']: the index of the entry it
\* breaks on, 0 when it ends without a match.
RECURSIVE SelectFrom(_, _, _)
SelectFrom(ml, a, k) ==
    IF k > Len(ml) THEN 0
    ELSE IF ml[k].architecture = a THEN k
    ELSE SelectFrom(ml, a, k + 1)

\* (Variant: the loop without its break, the last match winning.)
Select_last(ml, a) ==
    LET M == {k \in 1..Len(ml) : ml[k].architecture = a}
    IN  IF M = {} THEN 0 ELSE CHOOSE k \in M : \A j \in M : j <= k
Select(ml, a) == SelectFrom(ml, a, 1)

\* `tag_digest or tag`: the reference of the manifest GET ("tag": the original tag).
DigestOrTag(d) == IF d # "" THEN d ELSE "tag"

\* p.pull(img): tag_digest = None, image_os = 'linux', the reference is parsed and
\* get_manifest_list is called.
pull_start ==
    /\ pc = "main"
    /\ argi <= NArgs
    /\ Call("list")
    /\ blobReq' = {}
    /\ mlist' = <<>> /\ tag_digest' = "" /\ image_os' = "linux" /\ mref' = ""
    /\ idx' = 0 /\ mode' = "" /\ body' = <<>> /\ skipped' = {} /\ exc' = FALSE
    /\ err' = ""
    /\ UNCHANGED <<run, argi, user, session, registry, lab, files, archive>>

\* An exception leaves pull: the position and the locals stay as they were.
Raise(e) ==
    /\ pc' = "failed"
    /\ err' = e

\* manifests_list.json(), the platform loop, then get_manifest(url, tag_digest or tag).
after_manifest_list ==
    /\ pc = "ret" /\ kind = "list"
    /\ IF out = "None"
       THEN Raise("AttributeError") /\ UNCHANGED <<call, locals>>
       ELSE IF ~HasDocument(status)
       THEN Raise("JSONDecodeError") /\ UNCHANGED <<call, locals>>
       ELSE \E ml \in ManifestLists :
              LET k == Select(ml, arch) IN
              /\ mlist' = ml
              /\ tag_digest' = IF k = 0 THEN "" ELSE ml[k].digest
              /\ image_os' = IF k = 0 THEN image_os ELSE ml[k].os
              /\ mref' = DigestOrTag(IF k = 0 THEN "" ELSE ml[k].digest)
              /\ Call("manifest")
              /\ err' = ""
              /\ UNCHANGED <<idx, mode, body, skipped, exc>>
    /\ UNCHANGED <<run, argi, user, session, blobReq, registry, lab, files, archive>>

\* image_manifest_res.json(), saver = FileExporter(tmp_dir), get_blob(url, image_id).
after_manifest ==
    /\ pc = "ret" /\ kind = "manifest"
    /\ IF out = "None"
       THEN Raise("AttributeError") /\ UNCHANGED <<call, staging, mlist, tag_digest, mref>>
       ELSE IF ~HasDocument(status)
       THEN Raise("JSONDecodeError") /\ UNCHANGED <<call, staging, mlist, tag_digest, mref>>
       ELSE /\ staging' = TRUE
            /\ Call("config")
            /\ err' = ""
            /\ mlist' = <<>> /\ tag_digest' = "" /\ mref' = ""
    /\ UNCHANGED <<run, argi, user, session, blobReq, image_os, idx, mode, body, skipped,
                   exc, registry, lab,
                   cfgFile, dirs, gz, tar, json, ver, topFiles, archive>>

\* `if len(layers) != len(diff_ids): raise`
\* (Variant: no check.)
LayersConsistent_unchecked(nl, nd) == TRUE
LayersConsistent(nl, nd) == nl = nd

\* The config blob is written to <config-digest>.json and parsed; the layer count
\* is checked; chain_ids and v1_layers_ids are computed; the layer loop starts.
after_config ==
    /\ pc = "ret" /\ kind = "config"
    /\ IF out = "None"
       THEN Raise("AttributeError") /\ UNCHANGED <<cfgFile, idx, call>>
       ELSE /\ cfgFile' = TRUE
            /\ IF ~HasDocument(status)
               THEN Raise("JSONDecodeError") /\ UNCHANGED <<idx, call>>
               ELSE IF ~LayersConsistent(nLayers, nDiff)
               THEN Raise("LayerCountMismatch") /\ UNCHANGED <<idx, call>>
               ELSE pc' = "layer" /\ idx' = 1 /\ err' = "" /\ Return
    /\ UNCHANGED <<run, argi, user, session, blobReq, mlist, tag_digest, image_os,
                   mref, mode, body, skipped, exc, registry, lab,
                   staging, dirs, gz, tar, json, ver, topFiles, archive>>

\* ------------------------------------------------------ ImageFetcher._get_layer
\* `sha256sum(output_file) != diff_id[7:]`, negated: the file is the layer.
\* (Variants: the diff ID compared with its "sha256:" prefix; no comparison.)
Complete_unstripped(content, diff_id) == sha256sum(content) = diff_id
Complete_exists(content, diff_id) == TRUE
Complete(content, diff_id) == sha256sum(content) = Strip7(diff_id)

\* The body of a blob response: the whole blob, or from chunk n on when the
\* registry honours `Range: bytes=n-` with 206; 204 carries none.
Body(i, s, n) ==
    IF s = 206 /\ n # NoRange THEN SubSeq(Blob(i), n + 1, BlobLen)
    ELSE IF s = 204 THEN <<>>
    ELSE Blob(i)

\* One iteration of pull's layer loop up to get_blob: the Layers entry, the layer
\* directory (saver.path_join), and _get_layer's choice between done, resume and
\* fresh download.
get_layer ==
    /\ pc = "layer"
    /\ IF idx > nDiff
       THEN Raise("IndexError")
            /\ UNCHANGED <<dirs, hRange, call, mode, skipped>>
       ELSE /\ dirs' = dirs \cup {idx}
            /\ IF tar[idx] # NoFile
               THEN IF ~Complete(tar[idx], diff_ids[idx])
                    THEN IF gz[idx] = NoFile
                         THEN Raise("FileNotFoundError")
                              /\ UNCHANGED <<hRange, call, mode, skipped>>
                         ELSE /\ hRange' = Len(gz[idx])
                              /\ mode' = "ab"
                              /\ Call("blob")
                              /\ err' = ""
                              /\ UNCHANGED skipped
                    ELSE /\ skipped' = skipped \cup {idx}
                         /\ pc' = "json"
                         /\ err' = ""
                         /\ UNCHANGED <<hRange, call, mode>>
               ELSE /\ mode' = "wb"
                    /\ Call("blob")
                    /\ err' = ""
                    /\ UNCHANGED <<hRange, skipped>>
    /\ UNCHANGED <<run, argi, user, hAuth, blobReq, mlist, tag_digest, image_os, mref,
                   idx, body, exc, registry, lab, staging, cfgFile, gz, tar, json, ver,
                   topFiles, archive>>

\* After get_blob: r.headers, then unless the status is 416 the gz is opened in
\* open_file_mode and the body is streamed into it.
open_gz ==
    /\ pc = "ret" /\ kind = "blob"
    /\ IF out = "None"
       THEN Raise("AttributeError") /\ UNCHANGED <<gz, body, hRange, call>>
       ELSE /\ Return
            /\ IF status = 416
               THEN /\ pc' = "gunzip" /\ err' = ""
                    /\ hRange' = NoRange
                    /\ UNCHANGED <<gz, body>>
               ELSE /\ pc' = "stream" /\ err' = ""
                    /\ gz' = [gz EXCEPT ![idx] = IF mode = "wb" THEN <<>> ELSE @]
                    /\ body' = Body(idx, status, hRange)
                    /\ UNCHANGED hRange
    /\ UNCHANGED <<run, argi, user, hAuth, blobReq, mlist, tag_digest, image_os,
                   mref, idx, mode, skipped, exc, registry, lab, staging, cfgFile, dirs,
                   tar, json, ver, topFiles, archive>>

\* file.write(chunk) for the next chunk of r.iter_content.
stream_chunk ==
    /\ pc = "stream"
    /\ body # <<>>
    /\ gz' = [gz EXCEPT ![idx] = Append(@, Head(body))]
    /\ body' = Tail(body)
    /\ UNCHANGED <<pc, run, argi, user, session, call, blobReq, mlist, tag_digest,
                   image_os, mref, idx, mode, skipped, exc, err, registry, lab, staging,
                   cfgFile, dirs, tar, json, ver, topFiles, archive>>

\* r.iter_content raises (the connection broke): the exception leaves _get_layer.
stream_error ==
    /\ pc = "stream"
    /\ body # <<>>
    /\ Raise("ConnectionError")
    /\ UNCHANGED <<run, argi, user, session, call, blobReq, locals, registry, lab, files,
                   archive>>

\* The connection closes before the whole body has come and r.iter_content ends
\* without raising (the length of the body is not enforced): the loop ends early.
stream_short ==
    /\ pc = "stream"
    /\ body # <<>>
    /\ body' = <<>>
    /\ UNCHANGED <<pc, run, argi, user, session, call, blobReq, mlist, tag_digest,
                   image_os, mref, idx, mode, skipped, exc, err, registry, lab, files,
                   archive>>

\* The body is read to its end, the gz is closed and Range is cleared.
stream_end ==
    /\ pc = "stream"
    /\ body = <<>>
    /\ hRange' = NoRange
    /\ pc' = "gunzip"
    /\ UNCHANGED <<run, argi, user, hAuth, call, blobReq, locals, err, registry, lab, files,
                   archive>>

\* `with gzip.open(gziped_file, 'rb') as gz_data, open(output_file, 'wb') as
\* unzip_data`, then the seek to the ISIZE field 4 bytes before the end.
gunzip_open ==
    /\ pc = "gunzip"
    /\ IF gz[idx] = NoFile
       THEN Raise("FileNotFoundError") /\ UNCHANGED tar
       ELSE /\ tar' = [tar EXCEPT ![idx] = <<>>]
            /\ IF gz[idx] = <<>>
               THEN Raise("OSError")
               ELSE pc' = "inflate" /\ err' = ""
    /\ UNCHANGED <<run, argi, user, session, call, blobReq, locals, registry, lab, staging,
                   cfgFile, dirs, gz, json, ver, topFiles, archive>>

\* The copy loop gz_data.read -> unzip_data.write, to the end of the gz stream.
gunzip_copy ==
    /\ pc = "inflate"
    /\ LET r == Gunzip(gz[idx]) IN
       /\ tar' = [tar EXCEPT ![idx] = r.data]
       /\ IF r.ok
          THEN pc' = "remove" /\ err' = ""
          ELSE Raise("BadGzipFile")
    /\ UNCHANGED <<run, argi, user, session, call, blobReq, locals, registry, lab, staging,
                   cfgFile, dirs, gz, json, ver, topFiles, archive>>

\* Both files are closed; os.remove(gziped_file), and _get_layer returns.
gunzip_remove ==
    /\ pc = "remove"
    /\ gz' = [gz EXCEPT ![idx] = NoFile]
    /\ pc' = "json"
    /\ UNCHANGED <<run, argi, user, session, call, blobReq, locals, err, registry, lab,
                   staging, cfgFile, dirs, tar, json, ver, topFiles, archive>>

\* ------------------------------------------------- pull: the rest of the loop
\* `with saver(v1_layer_id, "json") as f: f.write(json.dumps(json_file, ...))`
write_json ==
    /\ pc = "json"
    /\ json' = json \cup {idx}
    /\ pc' = "version"
    /\ UNCHANGED <<run, argi, user, session, call, blobReq, locals, err, registry, lab,
                   staging, cfgFile, dirs, gz, tar, ver, topFiles, archive>>

\* `with saver(v1_layer_id, "VERSION") as f: f.write("1.0")`, parent_id, next layer.
write_version ==
    /\ pc = "version"
    /\ ver' = ver \cup {idx}
    /\ IF idx < nLayers
       THEN pc' = "layer" /\ idx' = idx + 1
       ELSE pc' = "manifest" /\ idx' = idx
    /\ UNCHANGED <<run, argi, user, session, call, blobReq, mlist, tag_digest, image_os,
                   mref, mode, body, skipped, exc, err, registry, lab, staging, cfgFile,
                   dirs, gz, tar, json, topFiles, archive>>

\* manifest.json and repositories are written.
write_manifest ==
    /\ pc = "manifest"
    /\ topFiles' = TRUE
    /\ pc' = "tar"
    /\ UNCHANGED <<run, argi, user, session, call, blobReq, locals, err, registry, lab,
                   staging, cfgFile, dirs, gz, tar, json, ver, archive>>

\* ------------------------------------------------------------------ TarFile
\* `with TarFile.open(f'{image_name}.tar', 'w', remove_src_dir=True) as tar:
\*      tar.add(tmp_dir, created=...)`: the archive is opened for writing and the
\* staging tree is added; add may raise (a read or write error).
tar_add ==
    /\ pc = "tar"
    /\ \E raised \in BOOLEAN :
        /\ exc' = raised
        /\ archive' = IF raised THEN <<>> ELSE [i \in 1..nLayers |-> tar[i]]
    /\ pc' = "tar_exit"
    /\ UNCHANGED <<run, argi, user, session, call, blobReq, mlist, tag_digest, image_os,
                   mref, idx, mode, body, skipped, err, registry, lab, files>>

\* `if self._remove_src_dir and exc_type is None`
\* (Variant: exc_type not looked at.)
RemoveSrc_always(remove_src_dir, exc_type) == remove_src_dir
RemoveSrc(remove_src_dir, exc_type) == remove_src_dir /\ ~exc_type

\* TarFile.__exit__: close, and shutil.rmtree of the added paths.
tar_exit ==
    /\ pc = "tar_exit"
    /\ IF RemoveSrc(TRUE, exc)
       THEN /\ staging' = FALSE /\ cfgFile' = FALSE /\ topFiles' = FALSE
            /\ dirs' = {} /\ json' = {} /\ ver' = {}
            /\ gz' = [i \in Layers |-> NoFile]
            /\ tar' = [i \in Layers |-> NoFile]
       ELSE UNCHANGED files
    /\ IF exc THEN Raise("TarError") ELSE pc' = "done" /\ err' = ""
    /\ UNCHANGED <<run, argi, user, session, call, blobReq, locals, registry, lab, archive>>

\* ------------------------------------------------------------------ __main__
\* pull returned: `for img in arg.image` goes on to the next argument.
pull_return ==
    /\ pc = "done"
    /\ pc' = "main"
    /\ argi' = argi + 1
    /\ UNCHANGED <<run, user, session, call, blobReq, locals, err, registry, lab, files,
                   archive>>

\* The loop is over: the program ends.
main_exit ==
    /\ pc = "main"
    /\ argi > NArgs
    /\ pc' = "exit"
    /\ UNCHANGED <<run, argi, user, session, call, blobReq, locals, err, registry, lab,
                   files, archive>>

\* The user stops the program (KeyboardInterrupt) while it waits for the network
\* or copies a file.
Interruptible ==
    {"req", "auth", "retry", "stream", "gunzip", "inflate", "remove", "json", "version"}

interrupt ==
    /\ pc \in Interruptible
    /\ Raise("KeyboardInterrupt")
    /\ UNCHANGED <<run, argi, user, session, call, blobReq, locals, registry, lab, files,
                   archive>>

\* The program is started again in the same working directory, with a new
\* ImageFetcher and session.
restart ==
    /\ pc \in {"failed", "exit"}
    /\ run < MaxRuns
    /\ run' = run + 1
    /\ pc' = "main"
    /\ argi' = 1
    /\ hAuth' = "none" /\ hRange' = NoRange
    /\ kind' = "" /\ sent' = 0 /\ first' = 0 /\ status' = 0 /\ out' = "" /\ tok' = 0
    /\ blobReq' = {}
    /\ mlist' = <<>> /\ tag_digest' = "" /\ image_os' = "linux" /\ mref' = ""
    /\ idx' = 0 /\ mode' = "" /\ body' = <<>> /\ skipped' = {} /\ exc' = FALSE
    /\ err' = ""
    /\ UNCHANGED <<user, registry, lab, files, archive>>

Init ==
    /\ pc = "main" /\ run = 1 /\ argi = 1
    /\ user \in BOOLEAN
    /\ hAuth = "none" /\ hRange = NoRange
    /\ kind = "" /\ sent = 0 /\ first = 0 /\ status = 0 /\ out = "" /\ tok = 0
    /\ blobReq = {}
    /\ mlist = <<>> /\ tag_digest = "" /\ image_os = "linux" /\ mref = ""
    /\ idx = 0 /\ mode = "" /\ body = <<>> /\ skipped = {} /\ exc = FALSE
    /\ err = ""
    /\ nLayers \in Layers /\ nDiff \in Layers
    /\ blobOK \in [Layers -> BOOLEAN]
    /\ staging = FALSE /\ cfgFile = FALSE /\ topFiles = FALSE
    /\ dirs = {} /\ json = {} /\ ver = {}
    /\ gz = [i \in Layers |-> NoFile]
    /\ tar = [i \in Layers |-> NoFile]
    /\ archive = <<>>
    /\ fn = "" /\ inp = <<>> /\ res = <<>>

Next ==
    \/ pull_start \/ req_first \/ auth \/ req_retry
    \/ after_manifest_list \/ after_manifest \/ after_config
    \/ get_layer \/ open_gz \/ stream_chunk \/ stream_error \/ stream_short \/ stream_end
    \/ gunzip_open \/ gunzip_copy \/ gunzip_remove
    \/ write_json \/ write_version \/ write_manifest
    \/ tar_add \/ tar_exit
    \/ pull_return \/ main_exit \/ interrupt \/ restart

Spec == Init /\ [][Next]_vars

\* =========================================================================
\* The functions of the program that are studied on their own: fn names the
\* function, inp is drawn from its arguments, and one step calls it.  The
\* program itself stands still, before its first pull.
MaxChain == 4      \* length of the list of diff IDs
NIds     == 3      \* distinct diff IDs

Idle ==
    /\ pc = "main" /\ run = 1 /\ argi = 1
    /\ user = FALSE
    /\ hAuth = "none" /\ hRange = NoRange
    /\ kind = "" /\ sent = 0 /\ first = 0 /\ status = 0 /\ out = "" /\ tok = 0
    /\ blobReq = {}
    /\ mlist = <<>> /\ tag_digest = "" /\ image_os = "linux" /\ mref = ""
    /\ idx = 0 /\ mode = "" /\ body = <<>> /\ skipped = {} /\ exc = FALSE
    /\ err = ""
    /\ nLayers = 1 /\ nDiff = 1
    /\ blobOK = [i \in Layers |-> TRUE]
    /\ staging = FALSE /\ cfgFile = FALSE /\ topFiles = FALSE
    /\ dirs = {} /\ json = {} /\ ver = {}
    /\ gz = [i \in Layers |-> NoFile]
    /\ tar = [i \in Layers |-> NoFile]
    /\ archive = <<>>

\* Sequences over S of length lo..hi.
SeqsOf(S, lo, hi) == UNION { [1..n -> S] : n \in lo..hi }

\* ------------------------------------------------------------------ chain_ids
\* Strings are sequences of tokens: 0 is "sha256:", -1 a space, and
\* hashlib.sha256(s.encode()).hexdigest() is s between the tokens -2 and -3 (a
\* code that no two strings share).
SP == <<0 - 1>>
hexdigest(s) == <<0 - 2>> \o s \o <<0 - 3>>

\* The diff IDs of an image config: "sha256:" + hex.
DiffIds == { Digest(<<d>>) : d \in 1..NIds }

\* chain_ids(ids), for a nonempty list.
\* (Variant: the pair hashed as ids[1] + ' ' + ids[0].)
RECURSIVE chain_ids_swapped(_)
chain_ids_swapped(ids) ==
    IF Len(ids) < 2 THEN ids
    ELSE LET nxt == << Digest(hexdigest(ids[2] \o SP \o ids[1])) >>
                    \o SubSeq(ids, 3, Len(ids))
         IN  << ids[1] >> \o chain_ids_swapped(nxt)
RECURSIVE chain_ids(_)
chain_ids(ids) ==
    IF Len(ids) < 2 THEN ids
    ELSE LET nxt == << Digest(hexdigest(ids[1] \o SP \o ids[2])) >>
                    \o SubSeq(ids, 3, Len(ids))
         IN  << ids[1] >> \o chain_ids(nxt)

call_chain_ids ==
    /\ fn = "chain_ids" /\ res = <<>>
    /\ res' = chain_ids(inp)
    /\ UNCHANGED <<program, fn, inp>>

\* --------------------------------------------------------------------- parser
\* A string is the sequence of its characters.
MaxRef == 5        \* length of an image reference
RefChars == {"a", ".", ":", "/", "@"}

DOCKER_REGISTRY_HOST ==
    <<"r", "e", "g", "i", "s", "t", "r", "y", "-", "1", ".",
      "d", "o", "c", "k", "e", "r", ".", "i", "o">>
library == <<"l", "i", "b", "r", "a", "r", "y">>
latest  == <<"l", "a", "t", "e", "s", "t">>

Has(s, c) == \E i \in 1..Len(s) : s[i] = c

\* str.split(sep) for a one-character sep (rsplit(sep) without a count is the same).
RECURSIVE split(_, _)
split(s, sep) ==
    IF ~Has(s, sep) THEN << s >>
    ELSE LET i == CHOOSE k \in 1..Len(s) : s[k] = sep /\ \A j \in 1..(k - 1) : s[j] # sep
         IN  << SubSeq(s, 1, i - 1) >> \o split(SubSeq(s, i + 1, Len(s)), sep)

\* sep.join(parts)
RECURSIVE join(_, _)
join(parts, sep) ==
    IF parts = <<>> THEN <<>>
    ELSE IF Len(parts) = 1 THEN parts[1]
    ELSE parts[1] \o << sep >> \o join(Tail(parts), sep)

\* '.' in image_parts[0] or ':' in image_parts[0]
\* (Variants: only the '.' is looked for; both characters are required.)
IsRegistry_dot(first_part) == Has(first_part, ".")
IsRegistry_both(first_part) == Has(first_part, ".") /\ Has(first_part, ":")
IsRegistry(first_part) == Has(first_part, ".") \/ Has(first_part, ":")

Parsed(r, n, t) == [ok |-> TRUE, reg |-> r, ns |-> n, tag |-> t]
Invalid == [ok |-> FALSE, reg |-> <<>>, ns |-> <<>>, tag |-> <<>>]

\* ImageFetcher.parser(image): the triple returned, or Invalid when it raises.
parser(image) ==
    LET image_parts == split(image, "/")
        n == Len(image_parts)
        named == n > 1 /\ IsRegistry(image_parts[1])
        reg == IF named THEN image_parts[1] ELSE DOCKER_REGISTRY_HOST
        ns_parts == IF n = 1 THEN << library >>
                    ELSE IF named THEN SubSeq(image_parts, 2, n - 1)
                    ELSE SubSeq(image_parts, 1, n - 1)
        image_name_tag == IF Has(image_parts[n], "@")
                          THEN split(image_parts[n], "@")
                          ELSE split(image_parts[n], ":")
        ns == join(Append(ns_parts, image_name_tag[1]), "/")
    IN  IF Len(image_name_tag) = 1 THEN Parsed(reg, ns, latest)
        ELSE IF Len(image_name_tag) = 2 THEN Parsed(reg, ns, image_name_tag[2])
        ELSE Invalid

\* reg + "/" + ns + ":" + tag, the reference a parsed triple is written back as.
Reference(t) == t.reg \o <<"/">> \o t.ns \o <<":">> \o t.tag

call_parser ==
    /\ fn = "parser" /\ res = <<>>
    /\ res' = << parser(inp) >>
    /\ UNCHANGED <<program, fn, inp>>

\* The triple returned is written back as a reference and parsed again.
call_parser_again ==
    /\ fn = "parser" /\ Len(res) = 1 /\ res[1].ok
    /\ res' = Append(res, parser(Reference(res[1])))
    /\ UNCHANGED <<program, fn, inp>>

\* ----------------------------------------------------------------- tar writer
\* A file name is the sequence of its bytes, a path the sequence of its names.
MaxDirs == 2       \* layer directories in the staging tree
MaxTime == 2       \* largest timestamp

SLASH == 47
DOTDOT        == <<46, 46>>
tmp_dir       == <<97, 95, 98, 46, 116, 109, 112>>
manifest_json == <<109, 97, 110, 105, 102, 101, 115, 116, 46, 106, 115, 111, 110>>
repositories  == <<114, 101, 112, 111, 115, 105, 116, 111, 114, 105, 101, 115>>
config_json   == <<52, 97, 46, 106, 115, 111, 110>>   \* config_filename, "4a.json"
VERSION       == <<86, 69, 82, 83, 73, 79, 78>>
json_file    == <<106, 115, 111, 110>>
layer_tar     == <<108, 97, 121, 101, 114, 46, 116, 97, 114>>
layer_tar_gz  == <<108, 97, 121, 101, 114, 46, 116, 97, 114, 46, 103, 122>>
\* The directory of layer i, named by its v1 id: "3f", "4f", ...
LayerDir(i) == <<50 + i, 102>>

\* What a layer directory holds when the archive is written: the three files
\* of a finished layer, or what an earlier, failed pull of another image under
\* the same tag left behind.
DirShapes ==
    { {VERSION, json_file, layer_tar}, {layer_tar_gz, layer_tar}, {layer_tar_gz}, {} }

\* The staging trees: one directory per layer beside the three top-level files.
Trees == UNION { [1..n -> DirShapes] : n \in 1..MaxDirs }

\* os.listdir(path) as a set, and os.path.isdir(path); path starts at tmp_dir.
listdir(tree, path) ==
    IF Len(path) = 1
    THEN {config_json, manifest_json, repositories} \cup { LayerDir(i) : i \in DOMAIN tree }
    ELSE LET i == CHOOSE k \in DOMAIN tree : LayerDir(k) = path[2] IN tree[i]
isdir(tree, path) ==
    Len(path) = 1 \/ (Len(path) = 2 /\ \E i \in DOMAIN tree : LayerDir(i) = path[2])

\* The orders os.listdir may return the names of S in.
RECURSIVE Orders(_)
Orders(S) ==
    IF S = {} THEN { <<>> }
    ELSE UNION { { << x >> \o l : l \in Orders(S \ {x}) } : x \in S }

\* a < b for two str values.
RECURSIVE Less(_, _)
Less(a, b) ==
    IF b = <<>> THEN FALSE
    ELSE IF a = <<>> THEN TRUE
    ELSE IF a[1] # b[1] THEN a[1] < b[1]
    ELSE Less(Tail(a), Tail(b))

Without(l, i) == SubSeq(l, 1, i - 1) \o SubSeq(l, i + 1, Len(l))

\* sorted(names)
\* (Variant: the names as os.listdir returned them.)
sorted_listed(names) == names
RECURSIVE sorted(_)
sorted(names) ==
    IF names = <<>> THEN <<>>
    ELSE LET i == CHOOSE k \in 1..Len(names) : \A j \in 1..Len(names) : ~Less(names[j], names[k])
         IN  << names[i] >> \o sorted(Without(names, i))

\* os.path.relpath(path, start)
RECURSIVE relpath(_, _)
relpath(path, start) ==
    IF start = <<>> THEN path
    ELSE IF path # <<>> /\ path[1] = start[1] THEN relpath(Tail(path), Tail(start))
    ELSE << DOTDOT >> \o relpath(path, Tail(start))

\* os.stat of a staged file before the writer touches it: whenever and by
\* whomever it was written.
Stats == { [mtime |-> t, uid |-> o, gid |-> o] : t \in 0..MaxTime, o \in {0, 1000} }
pwname(id) == IF id = 0 THEN "root" ELSE "user"

\* os.utime(file_path, mod_time): the file's mtime afterwards.
\* (Variant: the file keeps its mtime.)
utime_skipped(st_mtime, mod_time) == st_mtime
utime(st_mtime, mod_time) == mod_time

\* TarExporter.get_info: the name written to the header.
\* (Variant: a directory keeps its name.)
HeaderName_plain(name, type) == name
HeaderName(name, type) ==
    IF type = "dir" /\ (name = <<>> \/ name[Len(name)] # SLASH) THEN Append(name, SLASH) ELSE name

\* The iterations `for d in sorted(os.listdir(name))` of one call add(name, arcname).
Entries(listing, name, arcname) ==
    LET names == sorted(listing)
    IN  [k \in 1..Len(names) |-> [name |-> name, arcname |-> arcname, d |-> names[k]]]

\* The member one iteration of TarFile.add writes for entry e, whose os.stat
\* was st before.
Member(e, st) ==
    LET file_path == Append(e.name, e.d)
        arc_name == relpath(file_path, e.arcname)
        mod_time == IF file_path[Len(file_path)] \in {manifest_json, repositories}
                    THEN 0 ELSE inp.created
        type == IF isdir(inp.tree, file_path) THEN "dir" ELSE "file"
        numeric_owner == TRUE
        owner == 0
        group == 0
        darwin == inp.platform = "darwin" /\ owner = 0 /\ group = 0
    IN  [ name  |-> HeaderName(join(arc_name, SLASH), type),
          type  |-> type,
          uid   |-> owner,
          gid   |-> group,
          mtime |-> utime(st.mtime, mod_time),
          uname |-> IF darwin THEN "root" ELSE IF numeric_owner THEN "" ELSE pwname(st.uid),
          gname |-> IF darwin THEN "root" ELSE IF numeric_owner THEN "" ELSE pwname(st.gid),
          data  |-> IF type = "dir" THEN <<>> ELSE file_path ]

\* TarFile.open(...) and tar.add(tmp_dir, created=...): the top-level listing.
tar_open ==
    /\ fn = "tar" /\ ~res.open /\ res.run < 2
    /\ \E listing \in Orders(listdir(inp.tree, << tmp_dir >>)) :
          res' = [res EXCEPT !.open = TRUE, !.run = @ + 1,
                             !.todo = Entries(listing, << tmp_dir >>, << tmp_dir >>)]
    /\ UNCHANGED <<program, fn, inp>>

\* One iteration of the loop of TarFile.add; for a directory, the recursive
\* call add(file_path, name) runs before the iterations that are left.
tar_add_entry ==
    /\ fn = "tar" /\ res.open /\ res.todo # <<>>
    /\ LET e == Head(res.todo)
           file_path == Append(e.name, e.d)
       IN  \E st \in Stats :
             \E listing \in (IF isdir(inp.tree, file_path)
                             THEN Orders(listdir(inp.tree, file_path)) ELSE { <<>> }) :
                res' = [res EXCEPT !.out = Append(@, Member(e, st)),
                                   !.todo = Entries(listing, file_path, e.name) \o Tail(@)]
    /\ UNCHANGED <<program, fn, inp>>

\* TarFile.__exit__ without an exception: the archive is closed and the staging
\* tree removed; a later run finds the same tree staged again.
tar_close ==
    /\ fn = "tar" /\ res.open /\ res.todo = <<>>
    /\ res' = [res EXCEPT !.open = FALSE, !.out = <<>>, !.archives = Append(@, res.out)]
    /\ UNCHANGED <<program, fn, inp>>

\* ------------------------------------------------- v1 ids and the layer loop
\* json.dumps(cfg) in v1_layers_ids, as a string of tokens: which of the two
\* forms the descriptor has, its layer_id, and its parent if it has one.
CONFIG_FORM   == <<0 - 4>>    \* the image config without history and rootfs
TEMPLATE_FORM == <<0 - 5>>    \* the fixed container_config template
PARENT_KEY    == <<0 - 6>>
Descriptor(top, chain_id, parent) ==
    (IF top THEN CONFIG_FORM ELSE TEMPLATE_FORM) \o chain_id
        \o (IF parent # <<>> THEN PARENT_KEY \o parent ELSE <<>>)

\* v1_layers_ids(chain_ids_list, config_image): the loop from entry k on.
RECURSIVE v1_from(_, _, _)
v1_from(chain_ids_list, k, parent) ==
    IF k > Len(chain_ids_list) THEN <<>>
    ELSE LET chain_id == chain_ids_list[k]
             top == chain_id = chain_ids_list[Len(chain_ids_list)]
             j == Descriptor(top, chain_id, parent)
             id == Digest(hexdigest(j))
         IN  << id >> \o v1_from(chain_ids_list, k + 1, id)
v1_layers_ids(chain_ids_list) == v1_from(chain_ids_list, 1, <<>>)

\* The manifest's layer entries are told apart by a number; the diff ID of a
\* layer is the digest of its unpacked blob, so equal entries have equal diff IDs.
LayerEntries == 1..NIds
DiffIdOf(layer_info) == Digest(<< layer_info >>)

\* last_layer = layer_info == layers[-1]
LastLayer(layers, i) == layers[i] = layers[Len(layers)]

\* parent_id = v1_layer_id, at the end of an iteration.
\* (Variant: parent_id is left as it was.)
NextParent_kept(parent_id, v1_layer_id) == parent_id
NextParent(parent_id, v1_layer_id) == v1_layer_id

\* chain_ids_list = chain_ids(diff_ids); v1_layer_ids_list = v1_layers_ids(...)
layers_ids ==
    /\ fn = "layers" /\ res.at = "ids"
    /\ LET ids == [i \in 1..Len(inp) |-> DiffIdOf(inp[i])]     \* diff_ids
       IN  res' = [res EXCEPT !.at = "loop",
                              !.v1_layer_ids_list = v1_layers_ids(chain_ids(ids))]
    /\ UNCHANGED <<program, fn, inp>>

\* One iteration of `for i, layer_info in enumerate(layers)`, its download done.
layers_iter ==
    /\ fn = "layers" /\ res.at = "loop" /\ res.i < Len(inp)
    /\ LET i == res.i + 1
           last_layer == LastLayer(inp, i)
           v1_layer_id == Strip7(res.v1_layer_ids_list[i])
           layer_json == [ id     |-> v1_layer_id,
                           parent |-> res.parent_id,     \* <<>>: no parent key
                           form   |-> IF last_layer THEN CONFIG_FORM ELSE TEMPLATE_FORM ]
       IN  res' = [res EXCEPT !.i = i,
                              !.v1_layer_id = v1_layer_id,
                              !.Layers = Append(@, v1_layer_id \o << SLASH >> \o layer_tar),
                              !.json = Append(@, layer_json),
                              !.parent_id = NextParent(@, v1_layer_id)]
    /\ UNCHANGED <<program, fn, inp>>

\* After the loop: manifest.json and repositories are written.
layers_done ==
    /\ fn = "layers" /\ res.at = "loop" /\ res.i = Len(inp)
    /\ res' = [res EXCEPT !.at = "done", !.repositories = res.v1_layer_id]
    /\ UNCHANGED <<program, fn, inp>>

InitPure ==
    /\ Idle
    /\ \/ fn = "chain_ids" /\ inp \in SeqsOf(DiffIds, 1, MaxChain) /\ res = <<>>
       \/ fn = "parser" /\ inp \in SeqsOf(RefChars, 1, MaxRef) /\ res = <<>>
       \/ /\ fn = "layers"
          /\ inp \in SeqsOf(LayerEntries, 1, MaxChain)
          /\ res = [at |-> "ids", i |-> 0, v1_layer_ids_list |-> <<>>, v1_layer_id |-> <<>>,
                    parent_id |-> <<>>, Layers |-> <<>>, json |-> <<>>, repositories |-> <<>>]
       \/ /\ fn = "tar"
          /\ inp \in [tree : Trees, created : 0..MaxTime, platform : {"linux", "darwin"}]
          /\ res = [run |-> 0, open |-> FALSE, todo |-> <<>>, out |-> <<>>, archives |-> <<>>]

NextPure ==
    \/ call_chain_ids
    \/ call_parser
    \/ call_parser_again
    \/ layers_ids
    \/ layers_iter
    \/ layers_done
    \/ tar_open
    \/ tar_add_entry
    \/ tar_close

SpecPure == InitPure /\ [][NextPure]_vars

\* ================================================================== claims
InReq        == pc \in {"req", "auth", "retry", "ret"}
IsPrefix(p, q) == Len(p) <= Len(q) /\ p = SubSeq(q, 1, Len(p))

\* C1: one call of _req sends the original request at most twice; the second
\* send happens only after a first response 401; a second 401 ends the call with
\* an error, and nothing is sent after it.
C1_AtMostTwoSends ==
    /\ sent <= 2
    /\ (sent = 2 => first = 401)
    /\ (sent = 2 /\ status = 401 => pc = "failed" /\ out = "HTTPError")

C1_Second401Raised == sent = 2 /\ status = 401 /\ pc = "failed"

\* C2: whenever _req completes without raising, its caller holds a response:
\* every final status either returns the response or raises.
C2_ResponseOrError == pc = "ret" => out = "response"

\* C3: a resumed blob GET (layer.tar present with a wrong hash, the gz holding the
\* first n > 0 chunks of the blob, Range: bytes=n-) that is answered 206 goes on
\* to append the rest of the blob to the gz.
C3_Resume206Appends ==
    [][ ( /\ pc = "ret" /\ kind = "blob" /\ mode = "ab" /\ status = 206
          /\ gz[idx] # <<>> /\ IsPrefix(gz[idx], Blob(idx))
          /\ tar[idx] # NoFile /\ ~Complete(tar[idx], diff_ids[idx])
          /\ hRange = Len(gz[idx]) )
        => ( /\ pc' = "stream"
             /\ gz' = gz
             /\ body' = SubSeq(Blob(idx), Len(gz[idx]) + 1, BlobLen) ) ]_vars

\* C4: when _get_layer finds a partly written layer.tar.gz, the blob request it
\* sends carries Range: bytes=<size of the gz>- and the gz is opened for append.
C4_PartialGzResumed ==
    ( /\ InReq /\ kind = "blob"
      /\ gz[idx] # NoFile /\ gz[idx] # <<>> /\ IsPrefix(gz[idx], Blob(idx)) )
    => (hRange = Len(gz[idx]) /\ mode = "ab")

\* C5: outside a streaming blob GET (the request of _get_layer and the streaming
\* of its body) the session has no Range header, also after _get_layer has
\* raised.
C5_RangeUnsetOutsideBlobGet ==
    ~((InReq \/ pc = "stream") /\ kind = "blob") => hRange = NoRange

\* C6: when layer.tar exists and hashes to the diff ID, _get_layer returns at once:
\* no request is made (the program goes on to write json), and no file and no
\* session header changes.
C6_CompleteLayerUntouched ==
    [][ (pc = "layer" /\ tar[idx] = GoodTar)
        => (pc' = "json" /\ UNCHANGED <<session, call, blobReq, files>>) ]_vars

C6_LayerSkipped == pc = "json" /\ idx \in skipped /\ run > 1

\* C7 as claimed: when pull has completed, every archived layer.tar hashes to its
\* diff ID.
C7_ArchivedLayersMatch ==
    pc = "done" => \A i \in 1..nLayers : sha256sum(archive[i]) = Strip7(diff_ids[i])

\* C7, amended: when pull has completed, every layer.tar that _get_layer took
\* over from an earlier run without downloading it hashes to its diff ID (a
\* downloaded layer is archived without a check of its content).
C7_SkippedLayersMatch ==
    pc = "done" => \A i \in skipped : sha256sum(archive[i]) = Strip7(diff_ids[i])

C7_DoneWithSkippedLayer == pc = "done" /\ skipped # {}

\* C8: the staging directory goes away only in the exit of the tar writer's with
\* block when no exception left it, and it always goes away then; every other
\* step, the steps that end the pull with an exception among them, leaves the
\* staging directory, the config file, the layer directories and their
\* layer.tar, json and VERSION in place; a pull that fails after the staging
\* directory was made ends with the directory there.
C8_StagingRemovedOnlyOnSuccess ==
    [][ /\ (staging /\ ~staging') => (pc = "tar_exit" /\ ~exc /\ pc' = "done")
        /\ (pc = "tar_exit" /\ ~exc) => (~staging' /\ pc' = "done")
        /\ ~(pc = "tar_exit" /\ ~exc) =>
              /\ staging => staging'
              /\ cfgFile => cfgFile'
              /\ topFiles => topFiles'
              /\ dirs \subseteq dirs' /\ json \subseteq json' /\ ver \subseteq ver'
              /\ \A i \in Layers : tar[i] # NoFile => tar'[i] # NoFile
        /\ (pc' = "failed" /\ pc # "failed" /\ kind \in {"config", "blob"})
              => staging' ]_vars

C8_TarAddFailedStagingKept ==
    pc = "failed" /\ err = "TarError" /\ staging /\ topFiles /\ cfgFile /\ json # {}

\* C9: with len(layers) # len(diff_ids) no layer blob is ever requested and no
\* layer directory or file is written; pull raises after the config blob, and
\* the staging directory with the config file is still there.
C9_MismatchRaisesBeforeLayers ==
    /\ nLayers # nDiff =>
          /\ blobReq = {} /\ dirs = {} /\ json = {} /\ ver = {}
          /\ \A i \in Layers : tar[i] = NoFile /\ gz[i] = NoFile
          /\ pc \notin {"layer", "stream", "gunzip", "inflate", "remove", "json", "version",
                        "manifest", "tar", "tar_exit", "done"}
    /\ err = "LayerCountMismatch" =>
          pc = "failed" /\ nLayers # nDiff /\ staging /\ cfgFile /\ idx = 0

C9_MismatchRaised == err = "LayerCountMismatch" /\ pc = "failed"

\* C10: the manifest GET names the digest of the first entry of the manifest list
\* whose architecture is arch, and image_os is that entry's os; with no such
\* entry it names the original tag and image_os is 'linux'.
C10_FirstMatchingPlatform ==
    kind = "manifest" =>
        LET M == {k \in 1..Len(mlist) : mlist[k].architecture = arch} IN
        IF M = {}
        THEN mref = "tag" /\ image_os = "linux"
        ELSE \E k \in M :
               /\ \A j \in M : k <= j
               /\ mref = mlist[k].digest
               /\ image_os = mlist[k].os

C10_SecondOfThreeSelected ==
    /\ kind = "manifest" /\ pc = "req"
    /\ Len(mlist) = 3
    /\ mlist[1].architecture # arch
    /\ mlist[3].architecture = arch
    /\ mref = mlist[2].digest

\* C11: chain_ids(diffs) is as long as diffs, starts with diffs[0], and each
\* later element is "sha256:" + SHA256(the element before it + " " + diffs[i]).
C11_ChainRecurrence ==
    (fn = "chain_ids" /\ res # <<>>) =>
        /\ Len(res) = Len(inp)
        /\ res[1] = inp[1]
        /\ \A i \in 2..Len(inp) :
              res[i] = Digest(hexdigest(res[i - 1] \o SP \o inp[i]))

C11_ChainOfFour == fn = "chain_ids" /\ Len(res) = MaxChain /\ inp[1] # inp[2]

\* The part of a namespace after its last '/'.
LastPart(s) == LET parts == split(s, "/") IN parts[Len(parts)]

\* C12 (as stated): every triple the parser returns, written back as
\* reg + "/" + ns + ":" + tag, parses to the same triple.
C12_ReparseSame ==
    (fn = "parser" /\ Len(res) = 2) => res[2] = res[1]

\* C12: a triple the parser returns, written back as reg + "/" + ns + ":" + tag,
\* parses to the same triple when neither its tag nor the last part of its
\* namespace holds a ':'; when one of them does (a reference split at '@' whose
\* digest is "sha256:...", or whose name holds a ':'), parsing it again raises.
C12_RoundTrip ==
    (fn = "parser" /\ Len(res) = 2) =>
        IF Has(res[1].tag, ":") \/ Has(LastPart(res[1].ns), ":")
        THEN ~res[2].ok
        ELSE res[2] = res[1]

C12_AtReferenceRoundTrip ==
    /\ fn = "parser" /\ Len(res) = 2
    /\ Has(inp, "@")
    /\ res[1].reg # DOCKER_REGISTRY_HOST
    /\ res[1].tag = <<"a">>
    /\ res[2] = res[1]

\* The reference rules, by the positions of the separators in the reference.
Positions(s, c) == { i \in 1..Len(s) : s[i] = c }
Min(S) == CHOOSE x \in S : \A y \in S : x <= y
Max(S) == CHOOSE x \in S : \A y \in S : x >= y
\* s between the positions lo and hi, both excluded.
Between(s, lo, hi) == SubSeq(s, lo + 1, hi - 1)

\* C13: one segment: default registry, namespace "library/" + name; two or
\* more: the first segment is the registry exactly when it holds '.' or ':',
\* else the default registry and the first segment stays in the namespace; the
\* last segment is split at '@' if it has one, else at ':', the reference being
\* the right side or 'latest'; more than two parts raise.
C13_ReferenceRules ==
    (fn = "parser" /\ Len(res) >= 1) =>
        LET slashes == Positions(inp, "/")
            end == Len(inp) + 1
            lastStart == IF slashes = {} THEN 0 ELSE Max(slashes)
            last == Between(inp, lastStart, end)
            sep == IF Has(last, "@") THEN "@" ELSE ":"
            cuts == { lastStart + i : i \in Positions(last, sep) }
            cut == IF cuts = {} THEN end ELSE Min(cuts)
            name == Between(inp, lastStart, cut)
            ref == IF cuts = {} THEN latest ELSE Between(inp, cut, end)
            head == IF slashes = {} THEN <<>> ELSE Between(inp, 0, Min(slashes))
            named == slashes # {} /\ (Has(head, ".") \/ Has(head, ":"))
            \* where the namespace starts: after the registry, or at the start
            from == IF named THEN Min(slashes) ELSE 0
            prefix == IF slashes = {} THEN library \o <<"/">>
                      ELSE Between(inp, from, lastStart + 1)
        IN  IF Cardinality(cuts) > 1
            THEN ~res[1].ok
            ELSE /\ res[1].ok
                 /\ res[1].reg = (IF named THEN head ELSE DOCKER_REGISTRY_HOST)
                 /\ res[1].ns = prefix \o name
                 /\ res[1].tag = ref

C13_RegistryWithPort ==
    /\ fn = "parser" /\ Len(res) >= 1
    /\ res[1].ok
    /\ Has(res[1].reg, ":") /\ ~Has(res[1].reg, ".")
    /\ res[1].ns = <<"a">>
    /\ res[1].tag = latest

\* C14: two runs of the tar writer on the same staging tree with the same
\* 'created' value write the same members, field by field, in the same order:
\* what the second run has written so far is the beginning of the first run's
\* archive, and the whole of it once the second archive is closed.
C14_SameArchiveTwice ==
    fn = "tar" =>
        /\ (Len(res.archives) = 1 /\ res.open) => IsPrefix(res.out, res.archives[1])
        /\ Len(res.archives) = 2 => res.archives[1] = res.archives[2]

C14_TwoArchivesWritten ==
    /\ fn = "tar" /\ Len(res.archives) = 2
    /\ Len(res.archives[2]) >= 7

\* Member m is manifest.json or repositories at the top of the archive.
TopLevelPair(m) == m.name \in {manifest_json, repositories}

\* C15 (as stated): every member has uid = gid = 0; its mtime is 0 exactly when
\* it is top-level manifest.json or repositories, and the created timestamp
\* otherwise.
C15_ZeroExactlyForPair ==
    fn = "tar" =>
        \A k \in 1..Len(res.out) :
            LET m == res.out[k]
            IN  /\ m.uid = 0 /\ m.gid = 0
                /\ (m.mtime = 0) <=> TopLevelPair(m)
                /\ ~TopLevelPair(m) => m.mtime = inp.created

\* C15: every member has uid = gid = 0; top-level manifest.json and
\* repositories have mtime 0, every other member, file or directory, the
\* created timestamp (which is 0 as well when the image was created at the
\* epoch).
C15_OwnerAndMtime ==
    fn = "tar" =>
        \A k \in 1..Len(res.out) :
            LET m == res.out[k]
            IN  /\ m.uid = 0 /\ m.gid = 0
                /\ m.mtime = (IF TopLevelPair(m) THEN 0 ELSE inp.created)

C15_PairAndLayerFileWritten ==
    /\ fn = "tar" /\ inp.created > 0
    /\ \E k \in 1..Len(res.out) : res.out[k].name = repositories
    /\ \E k \in 1..Len(res.out) :
          /\ res.out[k].name = LayerDir(1) \o << SLASH >> \o layer_tar
          /\ res.out[k].mtime = inp.created

\* The paths of the staging tree below tmp_dir, and the member name of each.
TreePaths ==
    { << d >> : d \in listdir(inp.tree, << tmp_dir >>) }
    \cup UNION { { << LayerDir(i), f >> : f \in inp.tree[i] } : i \in DOMAIN inp.tree }
PathName(p) ==
    IF isdir(inp.tree, << tmp_dir >> \o p) THEN join(p, SLASH) \o << SLASH >> ELSE join(p, SLASH)
\* The name of the directory a member lies in (<<>> at the top), from its name.
Inner(name) == IF name[Len(name)] = SLASH THEN SubSeq(name, 1, Len(name) - 1) ELSE name
ParentName(name) ==
    LET cuts == { i \in 1..Len(Inner(name)) : name[i] = SLASH }
    IN  IF cuts = {} THEN <<>> ELSE SubSeq(name, 1, Max(cuts))
Beneath(name, dir) ==
    Len(name) > Len(dir) /\ SubSeq(name, 1, Len(dir)) = dir

\* C16: an archive holds every file and directory of the staging tree once;
\* the entries of one directory come in ascending order of their names; a
\* directory is a member whose name ends in '/', and the members beneath it
\* are the ones that follow it directly.
C16_DepthFirstSorted ==
    fn = "tar" =>
        \A a \in 1..Len(res.archives) :
            LET ms == res.archives[a]
                n == Len(ms)
            IN  /\ n = Cardinality(TreePaths)
                /\ { ms[k].name : k \in 1..n } = { PathName(p) : p \in TreePaths }
                /\ \A i, j \in 1..n :
                      (i < j /\ ParentName(ms[i].name) = ParentName(ms[j].name))
                          => Less(Inner(ms[i].name), Inner(ms[j].name))
                /\ \A i \in 1..n :
                      ms[i].type = "dir" =>
                          /\ ms[i].name[Len(ms[i].name)] = SLASH
                          /\ LET under == { j \in 1..n : Beneath(ms[j].name, ms[i].name) }
                             IN  under = (i + 1)..(i + Cardinality(under))

C16_DirectoriesBetweenFiles ==
    /\ fn = "tar" /\ Len(res.archives) >= 1
    /\ LET ms == res.archives[1]
       IN  \E i, j \in 1..Len(ms) :
              /\ i + 3 < j
              /\ ms[i].name = config_json
              /\ ms[i + 1].type = "dir"
              /\ ms[i + 2].name = ms[i + 1].name \o VERSION
              /\ ms[j].name = manifest_json

\* C17: a step taken after a pull has failed, with another image left on the
\* command line, is the start of that image's pull in the same program run.
C17_FailureMovesOn ==
    [][(pc = "failed" /\ argi < NArgs) => (run' = run /\ argi' = argi + 1 /\ pc' = "main")]_vars

\* The form of the descriptor a v1 id was hashed from.
FormOfId(id) == << id[3] >>

\* C18: of n layers, the last one alone has the image-config form, in the
\* descriptor its v1 id is built from and in its json file; all before it have
\* the template form, equal layer entries or not.
C18_OnlyTopmostHasConfigForm ==
    (fn = "layers" /\ res.at = "done") =>
        \A i \in 1..Len(inp) :
            /\ FormOfId(res.v1_layer_ids_list[i]) = CONFIG_FORM <=> i = Len(inp)
            /\ FormOfId(res.v1_layer_ids_list[i]) = TEMPLATE_FORM <=> i < Len(inp)
            /\ res.json[i].form = CONFIG_FORM <=> i = Len(inp)
            /\ res.json[i].form = TEMPLATE_FORM <=> i < Len(inp)

\* C19: after the layer loop, layer 0's json has no parent, the parent of each
\* later layer is the id of the layer before it, Layers lists
\* <v1_i>/layer.tar for i = 0..n-1 in that order, and repositories gives the
\* tag the id of layer n-1.
C19_ParentChain ==
    (fn = "layers" /\ res.at = "done") =>
        LET n == Len(inp)
            id(i) == Strip7(res.v1_layer_ids_list[i])
        IN  /\ Len(res.json) = n /\ Len(res.Layers) = n
            /\ res.json[1].parent = <<>>
            /\ \A i \in 1..n :
                  /\ res.json[i].id = id(i)
                  /\ res.Layers[i] = id(i) \o << SLASH >> \o layer_tar
                  /\ i > 1 => res.json[i].parent = id(i - 1)
            /\ res.repositories = id(n)

C19_ChainOfThree ==
    /\ fn = "layers" /\ res.at = "done"
    /\ Len(inp) >= 3
    /\ res.json[3].parent = res.json[2].id
    /\ res.json[2].parent # res.json[1].parent

\* C20: once the token endpoint has answered a challenge with a status outside
\* 2xx, _req has raised, the request was sent once, and Authorization holds no
\* Bearer token.
C20_TokenFailureRaises ==
    (tok # 0 /\ tok \div 100 # 2) =>
        (pc = "failed" /\ sent = 1 /\ hAuth # "bearer")

\* A layer.tar that holds the whole output of a gz stream: one inflated member
\* after another, none cut short.
FullyInflated(t) == t # NoFile /\ t # <<>> /\ Gunzip(t).ok

\* While the blob of layer idx is requested, every layer before it has its
\* layer.tar, json and VERSION.
BlobAfterEarlierLayers ==
    (kind = "blob" /\ pc \in {"req", "auth", "retry", "ret"}) =>
        \A j \in 1..(idx - 1) : tar[j] # NoFile /\ j \in json /\ j \in ver

\* A layer directory with json or VERSION has a fully decompressed layer.tar
\* and no layer.tar.gz.
MetadataFollowsData ==
    \A i \in Layers :
        (i \in json \/ i \in ver) => (FullyInflated(tar[i]) /\ gz[i] = NoFile)

\* C21: the blob of layer i+1 is requested only after layer i's layer.tar, json
\* and VERSION are written, and in every staging state, one retained from a
\* failed pull included, a layer directory with json or VERSION has a fully
\* decompressed layer.tar and no layer.tar.gz left over.
C21_SequentialMetadataAfterData ==
    BlobAfterEarlierLayers /\ MetadataFollowsData

====
